---- MODULE Spec2Model ----
(***************************************************************************)
(* A model of CubicClient (src/src/core/cubicclient.ts): the constructor   *)
(* with its optional retry interceptor, the four public methods and the    *)
(* request normalisation done by prepareCallRequest.  The HTTP transport   *)
(* (axios and the remote orchestrator) is the environment: it answers      *)
(* every attempt with a response or with a failure.                        *)
(***************************************************************************)
EXTENDS Integers, Sequences, FiniteSets, TLC

VARIABLES client, pc, call, config, attempts, sent, log, delays, outcome

vars == <<client, pc, call, config, attempts, sent, log, delays, outcome>>

callVars == <<pc, call, config, attempts, sent, log, delays, outcome>>

-----------------------------------------------------------------------------
(* Bounds of the model.                                                    *)

\* largest value of the `retry` option that is explored
MaxRetry == 3

\* longest message array handed to call / callAgent
MaxMessages == 2

-----------------------------------------------------------------------------
(* Values.                                                                 *)

\* a property that is missing from a JavaScript object
Undefined == "undefined"

\* a truthiness that takes the empty string for a value
TruthyWhenEmpty(x) == x # Undefined

\* JavaScript truthiness of a string-valued property: !x holds for a missing
\* property and for the empty string
Truthy(x) == x # Undefined /\ x # ""

\* the two promises a caller can have in flight on one client
CallIds == {"c1", "c2"}

\* the promise of a caller that makes one call
Single == {"c1"}

\* Message.sender: missing, or an object whose id may be missing
Senders ==
    { [def |-> FALSE, id |-> Undefined],
      [def |-> TRUE, id |-> Undefined],
      [def |-> TRUE, id |-> "user_123"] }

Types == {Undefined, "text"}

\* Message objects as a caller can pass them (types are erased at run time):
\* every combination of missing properties, and a second well-formed message
Messages ==
    [sender : Senders, content : {Undefined, "Hello"}, type : Types]
    \cup { [sender |-> [def |-> TRUE, id |-> "user_123"], content |-> "Hi there!",
            type |-> "text"] }

SeqsUpTo(S, n) == UNION { [1..k -> S] : k \in 0..n }

\* Message[] | Message: `array` is Array.isArray(messages); a single message is
\* kept as the one item of `items`
Inputs ==
    { [array |-> TRUE, items |-> s] : s \in SeqsUpTo(Messages, MaxMessages) }
    \cup { [array |-> FALSE, items |-> <<m>>] : m \in Messages }

\* agentName: missing, empty, or a string given as its characters
AgentNames ==
    { [def |-> FALSE, chars |-> <<>>],
      [def |-> TRUE, chars |-> <<>>],
      [def |-> TRUE, chars |-> <<"m", "y", "-", "a">>],
      [def |-> TRUE, chars |-> <<"a", " ", "b">>],
      [def |-> TRUE, chars |-> <<"a", "/", "?">>] }

-----------------------------------------------------------------------------
(* prepareCallRequest: validation and reshaping of the caller's input.     *)

Thrown(msg) == [ok |-> FALSE, error |-> msg, messages |-> <<>>]

\* an envelope that holds the messages in reverse order
PayloadReversed(ms) ==
    [ok |-> TRUE, error |-> "", messages |-> [i \in 1..Len(ms) |-> ms[Len(ms) + 1 - i]]]

Payload(ms) == [ok |-> TRUE, error |-> "", messages |-> ms]

\* the checks of a single message with the type checked before sender.id
CheckSingleTypeFirst(m) ==
    IF ~m.sender.def \/ ~Truthy(m.content)
      THEN "Message must have both sender and content properties"
    ELSE IF ~Truthy(m.type)
      THEN "Message must have a type property"
    ELSE IF ~Truthy(m.sender.id)
      THEN "Message sender must have an id property"
    ELSE ""

\* the checks made on a single message object, in the order of the code;
\* the result is "" when the message passes
CheckSingle(m) ==
    IF ~m.sender.def \/ ~Truthy(m.content)
      THEN "Message must have both sender and content properties"
    ELSE IF ~Truthy(m.sender.id)
      THEN "Message sender must have an id property"
    ELSE IF ~Truthy(m.type)
      THEN "Message must have a type property"
    ELSE ""

\* the checks of an array element without the check of the type
CheckEachNoType(m) ==
    IF ~m.sender.def \/ ~Truthy(m.content)
      THEN "Each message must have both sender and content properties"
    ELSE IF ~Truthy(m.sender.id)
      THEN "Each message sender must have an id property"
    ELSE ""

\* the checks made on one element of a message array, in the order of the code
CheckEach(m) ==
    IF ~m.sender.def \/ ~Truthy(m.content)
      THEN "Each message must have both sender and content properties"
    ELSE IF ~Truthy(m.sender.id)
      THEN "Each message sender must have an id property"
    ELSE IF ~Truthy(m.type)
      THEN "Each message must have a type property"
    ELSE ""

\* a loop that goes on after a failed check and reports the last failure
ValidateLast(ms, i) ==
    IF \E j \in i..Len(ms) : CheckEach(ms[j]) # ""
      THEN CheckEach(ms[CHOOSE j \in i..Len(ms) :
                          /\ CheckEach(ms[j]) # ""
                          /\ \A k \in (j + 1)..Len(ms) : CheckEach(ms[k]) = ""])
      ELSE ""

\* the for loop over the array, from element i on: the error of the first
\* element that fails a check, or "" when the loop runs to its end
RECURSIVE ValidateFrom(_, _)
ValidateFrom(ms, i) ==
    IF i > Len(ms) THEN ""
    ELSE IF CheckEach(ms[i]) # "" THEN CheckEach(ms[i])
    ELSE ValidateFrom(ms, i + 1)

\* a normalisation that lets the empty array through
prepareCallRequestNoEmptyCheck(input) ==
    IF ~input.array
      THEN IF CheckSingle(input.items[1]) # ""
             THEN Thrown(CheckSingle(input.items[1]))
             ELSE Payload(<<input.items[1]>>)
    ELSE IF ValidateFrom(input.items, 1) # ""
      THEN Thrown(ValidateFrom(input.items, 1))
    ELSE Payload(input.items)

prepareCallRequest(input) ==
    IF ~input.array
      THEN IF CheckSingle(input.items[1]) # ""
             THEN Thrown(CheckSingle(input.items[1]))
             ELSE Payload(<<input.items[1]>>)
    ELSE IF Len(input.items) = 0
      THEN Thrown("messages array cannot be empty")
    ELSE IF ValidateFrom(input.items, 1) # ""
      THEN Thrown(ValidateFrom(input.items, 1))
    ELSE Payload(input.items)

-----------------------------------------------------------------------------
(* The client: construction options and the connection profile.            *)

\* timeout used when options.timeout is missing (or falsy)
DefaultTimeout == 90000

\* milliseconds of backoff per retry already counted
BackoffUnit == 1000

\* an optional number of the options object
NoNumber == [def |-> FALSE, n |-> 0]

Number(n) == [def |-> TRUE, n |-> n]

BaseUrls == {Undefined, "", "http://localhost:1503"}

TimeoutOptions == {NoNumber, Number(0), Number(5000)}

RetryOptions == {NoNumber} \cup { Number(n) : n \in -1..MaxRetry }

\* the options objects a client is constructed with: the constructor reads
\* timeout and retry independently, and each is varied with the other left out
Options ==
    { o \in [baseUrl : BaseUrls, timeout : TimeoutOptions, retry : RetryOptions] :
        ~o.timeout.def \/ ~o.retry.def }

\* options.timeout || 90000
EffectiveTimeout(timeout) ==
    IF timeout.def /\ timeout.n # 0 THEN timeout.n ELSE DefaultTimeout

\* an installation test that takes retry: 0 as a request for retries
InstallsInterceptorAtZero(retry) == retry.def /\ retry.n >= 0

\* options.retry && options.retry > 0
InstallsInterceptor(retry) == retry.def /\ retry.n # 0 /\ retry.n > 0

NoClient ==
    [state |-> "none", options |-> [baseUrl |-> Undefined, timeout |-> NoNumber,
                                    retry |-> NoNumber],
     error |-> "", baseURL |-> Undefined, timeout |-> 0,
     interceptor |-> FALSE, maxRetries |-> 0]

\* new CubicClient(options)
NewClient(options) ==
    IF ~Truthy(options.baseUrl)
      THEN [NoClient EXCEPT !.state = "failed", !.options = options,
                            !.error = "baseUrl is required"]
      ELSE [state |-> "ready", options |-> options, error |-> "",
            baseURL |-> options.baseUrl,
            timeout |-> EffectiveTimeout(options.timeout),
            interceptor |-> InstallsInterceptor(options.retry),
            maxRetries |-> IF InstallsInterceptor(options.retry)
                             THEN options.retry.n ELSE 0]

-----------------------------------------------------------------------------
(* Requests, responses and failures of the transport.                      *)

\* config.__retryCount: not set on a fresh request config
NoCount == [set |-> FALSE, n |-> 0]

Count(n) == [set |-> TRUE, n |-> n]

\* the request config of a call that has issued nothing
NoConfig ==
    [method |-> "", url |-> <<>>, data |-> <<>>, hasData |-> FALSE,
     retryCount |-> NoCount]

\* encodeURI on one character: the separators of a URL are kept
EncodeCharAsURI(ch) ==
    CASE ch = " " -> "%20"
      [] ch = "%" -> "%25"
      [] OTHER -> ch

\* encodeURIComponent on one character of the model's alphabet: letters,
\* digits and - _ . ! ~ * ' ( ) are kept, everything else is percent-encoded
EncodeChar(ch) ==
    CASE ch = " " -> "%20"
      [] ch = "/" -> "%2F"
      [] ch = "%" -> "%25"
      [] ch = "?" -> "%3F"
      [] OTHER -> ch

encodeURIComponent(chars) == [i \in 1..Len(chars) |-> EncodeChar(chars[i])]

\* the response bodies the orchestrator can send for a request
CallResponses ==
    { [sender |-> "gpt_4o", timestamp |-> "2025-07-30T10:00:00Z", type |-> "text",
       content |-> t, metadata |-> "usage"] :
         t \in {"Response from agent", "Response"} }

AgentsResponses ==
    { [availableAgents |-> l] :
         l \in { <<>>, <<"gpt_4o", "claude_3_5">>, <<"gpt_4o", "gpt_4o">> } }

HealthResponses ==
    { [status |-> "healthy", timestamp |-> "2025-07-30T10:00:00Z",
       services |-> [n \in {"agents", "providers"} |-> "healthy"]],
      [status |-> "unhealthy", timestamp |-> "2025-07-30T10:00:00Z",
       services |-> [n \in {} |-> "healthy"]] }

ResponsesFor(cfg) ==
    IF cfg.method = "post" THEN CallResponses
    ELSE IF cfg.url = <<"/agents">> THEN AgentsResponses
    ELSE HealthResponses

\* the failures of one attempt: an error code and, when the server answered,
\* the status of the response
FailureKinds ==
    { [code |-> "ECONNABORTED", hasResponse |-> FALSE, status |-> 0],
      [code |-> "ENOTFOUND", hasResponse |-> FALSE, status |-> 0],
      [code |-> "ECONNREFUSED", hasResponse |-> FALSE, status |-> 0],
      [code |-> "ERR_NETWORK", hasResponse |-> FALSE, status |-> 0],
      [code |-> "ERR_BAD_RESPONSE", hasResponse |-> TRUE, status |-> 500],
      [code |-> "ERR_BAD_RESPONSE", hasResponse |-> TRUE, status |-> 503],
      [code |-> "ERR_BAD_REQUEST", hasResponse |-> TRUE, status |-> 400],
      [code |-> "ERR_BAD_REQUEST", hasResponse |-> TRUE, status |-> 499] }

\* the failures the transport can answer an attempt with.  An error of the
\* transport carries the request config; one that does not comes from a
\* replaced transport (the mocks of the tests reject with such errors).
Failures ==
    { [kind |-> k, hasConfig |-> TRUE] : k \in FailureKinds }
    \cup { [kind |-> k, hasConfig |-> FALSE] :
              k \in { k \in FailureKinds : k.code \in {"ECONNREFUSED", "ERR_NETWORK"}
                                           \/ k.status = 503 } }

\* the failures that are answers of the server: one status the interceptor
\* retries and one it does not
ServerFailures ==
    { f \in Failures : f.hasConfig /\ f.kind.status \in {503, 400} }

NoError ==
    [code |-> "", hasResponse |-> FALSE, status |-> 0, body |-> "",
     message |-> "", hasConfig |-> FALSE, retryCount |-> NoCount, attempt |-> 0]

\* an error whose config carries a retry counter kept by the client for all
\* of its requests: the highest counter of any request
TransportErrorSharedCount(kind, hasConfig, cfg, n) ==
    [code |-> kind.code, hasResponse |-> kind.hasResponse, status |-> kind.status,
     body |-> IF kind.hasResponse THEN "error body" ELSE "",
     message |-> kind.code,
     hasConfig |-> hasConfig,
     retryCount |-> IF ~hasConfig THEN NoCount
                    ELSE IF \A d \in CallIds : ~config[d].retryCount.set THEN NoCount
                    ELSE Count(CHOOSE m \in 0..(MaxRetry + 2) :
                                 /\ \E d \in CallIds : /\ config[d].retryCount.set
                                                        /\ config[d].retryCount.n = m
                                 /\ \A d \in CallIds : config[d].retryCount.set
                                                           => config[d].retryCount.n <= m),
     attempt |-> n]

\* the error object the transport rejects attempt number `n` with;
\* error.config, when the error carries one, is the config of that attempt
TransportError(kind, hasConfig, cfg, n) ==
    [code |-> kind.code, hasResponse |-> kind.hasResponse, status |-> kind.status,
     body |-> IF kind.hasResponse THEN "error body" ELSE "",
     message |-> kind.code,
     hasConfig |-> hasConfig,
     retryCount |-> IF hasConfig THEN cfg.retryCount ELSE NoCount,
     attempt |-> n]

-----------------------------------------------------------------------------
(* The retry interceptor installed by the constructor.                     *)

\* a budget check that is off by one: > where the code has >=
CountAtLeastOffByOne(count, maxRetries) == count.set /\ count.n > maxRetries

\* config.__retryCount >= maxRetries; undefined >= n is false
CountAtLeast(count, maxRetries) == count.set /\ count.n >= maxRetries

\* a counter that counts a failed attempt twice
NextCountByTwo(count) == Count((IF count.set THEN count.n ELSE 0) + 2)

\* config.__retryCount = config.__retryCount || 0; config.__retryCount += 1
NextCount(count) == Count((IF count.set THEN count.n ELSE 0) + 1)

\* a classification that misses the lowest server error: > 500 for >= 500
IsRetryableAbove500(error) ==
    \/ error.code = "ECONNABORTED"
    \/ error.code = "ENOTFOUND"
    \/ error.code = "ECONNREFUSED"
    \/ (error.hasResponse /\ error.status > 500)

\* the condition under which the interceptor re-issues the request
IsRetryable(error) ==
    \/ error.code = "ECONNABORTED"
    \/ error.code = "ENOTFOUND"
    \/ error.code = "ECONNREFUSED"
    \/ (error.hasResponse /\ error.status >= 500)

\* a rejection handler that waits the same time before every retry
onRejectedFixedDelay(error, maxRetries) ==
    IF ~error.hasConfig \/ CountAtLeast(error.retryCount, maxRetries)
      THEN [do |-> "reject", error |-> error, count |-> error.retryCount, delay |-> 0]
    ELSE IF IsRetryable(error)
      THEN [do |-> "retry",
            error |-> [error EXCEPT !.retryCount = NextCount(error.retryCount)],
            count |-> NextCount(error.retryCount),
            delay |-> BackoffUnit]
    ELSE [do |-> "reject",
          error |-> [error EXCEPT !.retryCount = NextCount(error.retryCount)],
          count |-> NextCount(error.retryCount), delay |-> 0]

\* a rejection handler that classifies a failure without looking for its
\* request config
onRejectedWithoutConfigGuard(error, maxRetries) ==
    IF CountAtLeast(error.retryCount, maxRetries)
      THEN [do |-> "reject", error |-> error, count |-> error.retryCount, delay |-> 0]
    ELSE IF IsRetryable(error)
      THEN [do |-> "retry",
            error |-> [error EXCEPT !.retryCount = NextCount(error.retryCount)],
            count |-> NextCount(error.retryCount),
            delay |-> BackoffUnit * NextCount(error.retryCount).n]
    ELSE [do |-> "reject",
          error |-> [error EXCEPT !.retryCount = NextCount(error.retryCount)],
          count |-> NextCount(error.retryCount), delay |-> 0]

\* the rejection handler: what it does with `error` for a client whose
\* option retry is maxRetries.  "reject" hands the error on to the caller,
\* "retry" waits `delay` milliseconds and re-issues the request with `count`.
\* The counter is written into error.config before the failure is classified.
onRejected(error, maxRetries) ==
    IF ~error.hasConfig \/ CountAtLeast(error.retryCount, maxRetries)
      THEN [do |-> "reject", error |-> error, count |-> error.retryCount, delay |-> 0]
    ELSE IF IsRetryable(error)
      THEN [do |-> "retry",
            error |-> [error EXCEPT !.retryCount = NextCount(error.retryCount)],
            count |-> NextCount(error.retryCount),
            delay |-> BackoffUnit * NextCount(error.retryCount).n]
    ELSE [do |-> "reject",
          error |-> [error EXCEPT !.retryCount = NextCount(error.retryCount)],
          count |-> NextCount(error.retryCount), delay |-> 0]

\* what the response chain of the client does with a failed attempt
HandleFailure(error) ==
    IF client.interceptor
      THEN onRejected(error, client.maxRetries)
      ELSE [do |-> "reject", error |-> error, count |-> error.retryCount, delay |-> 0]

-----------------------------------------------------------------------------
(* The state of a call and the public methods.                             *)

NoBody == [status |-> "", timestamp |-> "", services |-> [n \in {} |-> "healthy"]]

Pending ==
    [status |-> "pending", thrown |-> "", text |-> "", list |-> <<>>,
     body |-> NoBody, error |-> NoError]

\* the promise rejects with new Error(msg) thrown by the client itself
RejectedWith(msg) == [Pending EXCEPT !.status = "rejected", !.thrown = msg]

\* a rejection that wraps the error of the transport in an error of the client
RejectedWrapped(error) ==
    [Pending EXCEPT !.status = "rejected", !.thrown = "Request failed"]

\* the promise rejects with the error of the transport
RejectedBy(error) == [Pending EXCEPT !.status = "rejected", !.error = error]

NoCall == [op |-> "", agentName |-> [def |-> FALSE, chars |-> <<>>],
           input |-> [array |-> TRUE, items |-> <<>>]]

\* what goes on the wire for a request config
Wire(cfg) == [method |-> cfg.method, url |-> cfg.url, data |-> cfg.data,
              hasData |-> cfg.hasData]

TypeOK ==
    /\ client.state \in {"none", "ready", "failed"}
    /\ pc \in [CallIds -> {"idle", "inflight", "backoff", "done"}]
    /\ \A c \in CallIds : attempts[c] \in 0..(MaxRetry + 1)

Init ==
    /\ client = NoClient
    /\ pc = [c \in CallIds |-> "idle"]
    /\ call = [c \in CallIds |-> NoCall]
    /\ config = [c \in CallIds |-> NoConfig]
    /\ attempts = [c \in CallIds |-> 0]
    /\ sent = [c \in CallIds |-> <<>>]
    /\ log = [c \in CallIds |-> <<>>]
    /\ delays = [c \in CallIds |-> <<>>]
    /\ outcome = [c \in CallIds |-> Pending]

\* new CubicClient(options)
Construct(options) ==
    /\ client.state = "none"
    /\ client' = NewClient(options)
    /\ UNCHANGED callVars

\* a method is invoked on the client for the promise c
CanInvoke(c) == client.state = "ready" /\ pc[c] = "idle"

\* the method throws before it reaches the transport
Throw(c, invocation, msg) ==
    /\ pc' = [pc EXCEPT ![c] = "done"]
    /\ call' = [call EXCEPT ![c] = invocation]
    /\ config' = [config EXCEPT ![c] = NoConfig]
    /\ attempts' = [attempts EXCEPT ![c] = 0]
    /\ sent' = [sent EXCEPT ![c] = <<>>]
    /\ log' = [log EXCEPT ![c] = <<>>]
    /\ delays' = [delays EXCEPT ![c] = <<>>]
    /\ outcome' = [outcome EXCEPT ![c] = RejectedWith(msg)]
    /\ UNCHANGED client

\* this.httpClient.post(url, data) / this.httpClient.get(url): the first attempt
Issue(c, invocation, cfg) ==
    /\ pc' = [pc EXCEPT ![c] = "inflight"]
    /\ call' = [call EXCEPT ![c] = invocation]
    /\ config' = [config EXCEPT ![c] = cfg]
    /\ attempts' = [attempts EXCEPT ![c] = 1]
    /\ sent' = [sent EXCEPT ![c] = <<Wire(cfg)>>]
    /\ log' = [log EXCEPT ![c] = <<>>]
    /\ delays' = [delays EXCEPT ![c] = <<>>]
    /\ outcome' = [outcome EXCEPT ![c] = Pending]
    /\ UNCHANGED client

PostConfig(url, messages) ==
    [method |-> "post", url |-> url, data |-> messages, hasData |-> TRUE,
     retryCount |-> NoCount]

GetConfig(url) ==
    [method |-> "get", url |-> url, data |-> <<>>, hasData |-> FALSE,
     retryCount |-> NoCount]

\* client.call(messages), for a messages argument drawn from `inputs`
CallWith(c, inputs) ==
    /\ CanInvoke(c)
    /\ \E input \in inputs :
       LET invocation == [op |-> "call", agentName |-> NoCall.agentName, input |-> input]
           payload == prepareCallRequest(input)
       IN  IF ~payload.ok
             THEN Throw(c, invocation, payload.error)
             ELSE Issue(c, invocation, PostConfig(<<"/dispatch">>, payload.messages))

\* client.call(messages)
Call(c) == CallWith(c, Inputs)

\* a test of the agent name that lets the empty string through
IsMissingName(agentName) == ~agentName.def

\* !agentName: the argument is missing or the empty string
IsFalsyName(agentName) == ~agentName.def \/ agentName.chars = <<>>

\* a callAgent that normalises the messages before it looks at the agent name
CallAgentWithMessagesFirst(c, agentNames, inputs) ==
    /\ CanInvoke(c)
    /\ \E agentName \in agentNames, input \in inputs :
       LET invocation == [op |-> "callAgent", agentName |-> agentName, input |-> input]
           payload == prepareCallRequest(input)
       IN  IF ~payload.ok
             THEN Throw(c, invocation, payload.error)
           ELSE IF IsFalsyName(agentName)
             THEN Throw(c, invocation, "agentName is required")
           ELSE Issue(c, invocation,
                      PostConfig(<<"/dispatch/">> \o encodeURIComponent(agentName.chars),
                                 payload.messages))

\* client.callAgent(agentName, messages), for arguments drawn from
\* `agentNames` and `inputs`
CallAgentWith(c, agentNames, inputs) ==
    /\ CanInvoke(c)
    /\ \E agentName \in agentNames, input \in inputs :
       LET invocation == [op |-> "callAgent", agentName |-> agentName, input |-> input]
           payload == prepareCallRequest(input)
       IN  IF IsFalsyName(agentName)
             THEN Throw(c, invocation, "agentName is required")
           ELSE IF ~payload.ok
             THEN Throw(c, invocation, payload.error)
           ELSE Issue(c, invocation,
                      PostConfig(<<"/dispatch/">> \o encodeURIComponent(agentName.chars),
                                 payload.messages))

\* client.callAgent(agentName, messages)
CallAgent(c) == CallAgentWith(c, AgentNames, Inputs)

\* client.getAgents()
GetAgents(c) ==
    /\ CanInvoke(c)
    /\ Issue(c, [NoCall EXCEPT !.op = "getAgents"], GetConfig(<<"/agents">>))

\* client.getHealth()
GetHealth(c) ==
    /\ CanInvoke(c)
    /\ Issue(c, [NoCall EXCEPT !.op = "getHealth"], GetConfig(<<"/health">>))

\* a dispatch that returns the sender of the response for its content
ReturnedSender(op, data) ==
    IF op \in {"call", "callAgent"}
      THEN [Pending EXCEPT !.status = "resolved", !.text = data.sender]
    ELSE IF op = "getAgents"
      THEN [Pending EXCEPT !.status = "resolved", !.list = data.availableAgents]
    ELSE [Pending EXCEPT !.status = "resolved", !.body = data]

\* a dispatch that returns the whole response body for its content
ReturnedWholeBody(op, data) ==
    IF op = "getAgents"
      THEN [Pending EXCEPT !.status = "resolved", !.list = data.availableAgents]
      ELSE [Pending EXCEPT !.status = "resolved", !.body = data]

\* a listing that drops the agents it has already listed
ReturnedDistinctAgents(op, data) ==
    IF op \in {"call", "callAgent"}
      THEN [Pending EXCEPT !.status = "resolved", !.text = data.content]
    ELSE IF op = "getAgents"
      THEN LET l == data.availableAgents
               F[i \in 0..Len(l)] ==
                   IF i = 0 THEN <<>>
                   ELSE IF \E j \in 1..(i - 1) : l[j] = l[i] THEN F[i - 1]
                   ELSE Append(F[i - 1], l[i])
           IN  [Pending EXCEPT !.status = "resolved", !.list = F[Len(l)]]
    ELSE [Pending EXCEPT !.status = "resolved", !.body = data]

\* a health check that fills in the services the response leaves out
ReturnedHealthDefaulted(op, data) ==
    IF op \in {"call", "callAgent"}
      THEN [Pending EXCEPT !.status = "resolved", !.text = data.content]
    ELSE IF op = "getAgents"
      THEN [Pending EXCEPT !.status = "resolved", !.list = data.availableAgents]
    ELSE [Pending EXCEPT !.status = "resolved",
                         !.body = [data EXCEPT !.services =
                                      [n \in {"prompt", "agents", "providers", "spec"} |->
                                          IF n \in DOMAIN data.services
                                            THEN data.services[n] ELSE "unhealthy"]]]

\* the value a method returns for the response data of its request
Returned(op, data) ==
    IF op \in {"call", "callAgent"}
      THEN [Pending EXCEPT !.status = "resolved", !.text = data.content]
    ELSE IF op = "getAgents"
      THEN [Pending EXCEPT !.status = "resolved", !.list = data.availableAgents]
    ELSE [Pending EXCEPT !.status = "resolved", !.body = data]

\* what the transport did with an attempt, as the log of a call keeps it
Answer(data) ==
    [ok |-> TRUE, data |-> [Pending EXCEPT !.status = "resolved", !.body = data],
     error |-> NoError]

Failed(error) == [ok |-> FALSE, data |-> Pending, error |-> error]

\* the transport answers the attempt in flight with a 2xx response: the
\* interceptor passes it through and the method returns its field
Respond(c) ==
    /\ pc[c] = "inflight"
    /\ \E data \in ResponsesFor(config[c]) :
          /\ log' = [log EXCEPT ![c] = Append(@, Answer(data))]
          /\ outcome' = [outcome EXCEPT ![c] = Returned(call[c].op, data)]
    /\ pc' = [pc EXCEPT ![c] = "done"]
    /\ UNCHANGED <<client, call, config, attempts, sent, delays>>

\* a response chain that retries only requests without a body
FailWithGetOnly(c, failures) ==
    /\ pc[c] = "inflight"
    /\ \E failure \in failures :
       LET error == TransportError(failure.kind, failure.hasConfig, config[c], attempts[c])
           g == HandleFailure(error)
           h == IF g.do = "retry" /\ config[c].method = "post"
                  THEN [g EXCEPT !.do = "reject", !.delay = 0] ELSE g
       IN  /\ log' = [log EXCEPT ![c] = Append(@, Failed(error))]
           /\ config' = IF error.hasConfig
                           THEN [config EXCEPT ![c].retryCount = h.count]
                           ELSE config
           /\ IF h.do = "retry"
                THEN /\ pc' = [pc EXCEPT ![c] = "backoff"]
                     /\ delays' = [delays EXCEPT ![c] = Append(@, h.delay)]
                     /\ UNCHANGED outcome
                ELSE /\ pc' = [pc EXCEPT ![c] = "done"]
                     /\ outcome' = [outcome EXCEPT ![c] = RejectedBy(h.error)]
                     /\ UNCHANGED delays
    /\ UNCHANGED <<client, call, attempts, sent>>

\* a response chain that remembers the first failure of a call and rejects
\* with it when the retries end
FailWithFirstError(c, failures) ==
    /\ pc[c] = "inflight"
    /\ \E failure \in failures :
       LET error == TransportError(failure.kind, failure.hasConfig, config[c], attempts[c])
           h == HandleFailure(error)
       IN  /\ log' = [log EXCEPT ![c] = Append(@, Failed(error))]
           /\ config' = IF error.hasConfig
                           THEN [config EXCEPT ![c].retryCount = h.count]
                           ELSE config
           /\ IF h.do = "retry"
                THEN /\ pc' = [pc EXCEPT ![c] = "backoff"]
                     /\ delays' = [delays EXCEPT ![c] = Append(@, h.delay)]
                     /\ UNCHANGED outcome
                ELSE /\ pc' = [pc EXCEPT ![c] = "done"]
                     /\ outcome' = [outcome EXCEPT ![c] =
                                       RejectedBy(IF Len(log[c]) > 0
                                                    THEN log[c][1].error ELSE h.error)]
                     /\ UNCHANGED delays
    /\ UNCHANGED <<client, call, attempts, sent>>

\* the transport fails the attempt in flight with one of `failures`: the
\* response chain either hands the error to the caller or starts the backoff
\* timer of a retry
FailWith(c, failures) ==
    /\ pc[c] = "inflight"
    /\ \E failure \in failures :
       LET error == TransportError(failure.kind, failure.hasConfig, config[c], attempts[c])
           h == HandleFailure(error)
       IN  /\ log' = [log EXCEPT ![c] = Append(@, Failed(error))]
           /\ config' = IF error.hasConfig
                           THEN [config EXCEPT ![c].retryCount = h.count]
                           ELSE config
           /\ IF h.do = "retry"
                THEN /\ pc' = [pc EXCEPT ![c] = "backoff"]
                     /\ delays' = [delays EXCEPT ![c] = Append(@, h.delay)]
                     /\ UNCHANGED outcome
                ELSE /\ pc' = [pc EXCEPT ![c] = "done"]
                     /\ outcome' = [outcome EXCEPT ![c] = RejectedBy(h.error)]
                     /\ UNCHANGED delays
    /\ UNCHANGED <<client, call, attempts, sent>>

\* the transport fails the attempt in flight
Fail(c) == FailWith(c, Failures)

\* the transport fails the attempt in flight with an answer of the server
ServerFail(c) == FailWith(c, ServerFailures)

\* a re-issue that sends the request without its body
ReissueWithoutBody(c) ==
    /\ pc[c] = "backoff"
    /\ pc' = [pc EXCEPT ![c] = "inflight"]
    /\ attempts' = [attempts EXCEPT ![c] = @ + 1]
    /\ sent' = [sent EXCEPT ![c] = Append(@, [Wire(config[c]) EXCEPT !.data = <<>>,
                                                                     !.hasData = FALSE])]
    /\ UNCHANGED <<client, call, config, log, delays, outcome>>

\* a backoff whose timer never fires: the handler stays suspended
ReissueSuspended(c) ==
    /\ pc[c] = "backoff"
    /\ UNCHANGED vars

\* the backoff timer fires: return this.httpClient(config)
Reissue(c) ==
    /\ pc[c] = "backoff"
    /\ pc' = [pc EXCEPT ![c] = "inflight"]
    /\ attempts' = [attempts EXCEPT ![c] = @ + 1]
    /\ sent' = [sent EXCEPT ![c] = Append(@, Wire(config[c]))]
    /\ UNCHANGED <<client, call, config, log, delays, outcome>>

\* a valid single message, a valid array of two messages
PlainInputs ==
    { input \in Inputs :
        /\ prepareCallRequest(input).ok
        /\ \/ ~input.array /\ input.items[1].content = "Hello"
           \/ input.array /\ Len(input.items) = 2
                          /\ input.items[1].content # input.items[2].content }

\* an agent name that needs encoding
PlainNames == { a \in AgentNames : a.chars = <<"a", " ", "b">> }

\* client.call(messages) with a valid argument
PlainCall(c) == CallWith(c, PlainInputs)

\* client.callAgent(agentName, messages) with valid arguments
PlainCallAgent(c) == CallAgentWith(c, PlainNames, { input \in PlainInputs : ~input.array })

\* One call on a client, every argument the methods can be given, against a
\* server that answers or fails with a status.
Next ==
    \/ \E options \in Options : Construct(options)
    \/ \E c \in Single : Call(c)
    \/ \E c \in Single : CallAgent(c)
    \/ \E c \in Single : GetAgents(c)
    \/ \E c \in Single : GetHealth(c)
    \/ \E c \in Single : Respond(c)
    \/ \E c \in Single : ServerFail(c)
    \/ \E c \in Single : Reissue(c)

Spec == Init /\ [][Next]_vars

\* One call with valid arguments, against a transport that can fail every
\* attempt in every way.
NextRetry ==
    \/ \E options \in Options : Construct(options)
    \/ \E c \in Single : PlainCall(c)
    \/ \E c \in Single : PlainCallAgent(c)
    \/ \E c \in Single : GetAgents(c)
    \/ \E c \in Single : GetHealth(c)
    \/ \E c \in Single : Respond(c)
    \/ \E c \in Single : Fail(c)
    \/ \E c \in Single : Reissue(c)

SpecRetry == Init /\ [][NextRetry]_vars

\* the attempt in flight of call c ends: the transport answers it or fails it
\* (at the latest when the timeout of the connection profile expires)
AttemptEnds(c) == Respond(c) \/ Fail(c)

\* SpecRetry under the scheduling of the event loop: every attempt ends and
\* every backoff timer fires.
SpecLive ==
    /\ Init
    /\ [][NextRetry]_vars
    /\ \A c \in Single : WF_vars(AttemptEnds(c)) /\ WF_vars(Reissue(c))

\* Two calls in flight on one client, each with its own request config.
NextConc ==
    \/ \E options \in Options : Construct(options)
    \/ \E c \in CallIds : PlainCall(c)
    \/ \E c \in CallIds : GetAgents(c)
    \/ \E c \in CallIds : GetHealth(c)
    \/ \E c \in CallIds : Respond(c)
    \/ \E c \in CallIds : ServerFail(c)
    \/ \E c \in CallIds : Reissue(c)

SpecConc == Init /\ [][NextConc]_vars

-----------------------------------------------------------------------------
(* Properties.  Their vocabulary is that of the specification document: it *)
(* is defined here from the state, not from the operators of the model.    *)

\* the client was constructed with retry: N for an N > 0
RetryEnabled ==
    client.state = "ready" /\ client.options.retry.def /\ client.options.retry.n > 0

\* the N of retry: N
MaxRetries == client.options.retry.n

\* a failure of a retryable class: connection timeout, name-resolution
\* failure, connection refusal, or a response with status >= 500
RetryableClass(error) ==
    \/ error.code \in {"ECONNABORTED", "ENOTFOUND", "ECONNREFUSED"}
    \/ (error.hasResponse /\ error.status >= 500)

\* attempt number i (counted from 1) of call c has failed
FailedAttempt(c, i) == i \in 1..Len(log[c]) /\ ~log[c][i].ok

\* attempt number i of call c was followed by a retry: a further attempt has
\* been issued, or its backoff timer is running
Retried(c, i) == i < attempts[c] \/ (i = attempts[c] /\ pc[c] = "backoff")

\* call c has rejected with exactly the error object the transport produced
\* for its attempt number i
RejectedWithErrorOf(c, i) ==
    /\ pc[c] = "done"
    /\ outcome[c].status = "rejected"
    /\ outcome[c].thrown = ""
    /\ outcome[c].error = log[c][i].error

\* C1: with retry: N > 0 a call issues at most N+1 attempts; when attempt n
\* (counted from 0) fails and n >= N, no further attempt is issued and the
\* call rejects with the error of that attempt, unchanged.
C1_AtMostNPlusOneAttempts ==
    \A c \in CallIds :
        RetryEnabled =>
            /\ attempts[c] <= MaxRetries + 1
            /\ Len(sent[c]) = attempts[c]
            /\ \A i \in 1..Len(log[c]) :
                   (FailedAttempt(c, i) /\ i - 1 >= MaxRetries) =>
                       /\ ~Retried(c, i)
                       /\ attempts[c] = i
                       /\ RejectedWithErrorOf(c, i)

\* a call that used up its budget: N retryable failures were retried and the
\* failure of attempt N+1, retryable as well, ended the call
C1_Witness ==
    \E c \in CallIds :
        /\ RetryEnabled
        /\ MaxRetries >= 2
        /\ attempts[c] = MaxRetries + 1
        /\ Len(log[c]) = MaxRetries + 1
        /\ \A i \in 1..Len(log[c]) :
               FailedAttempt(c, i) /\ RetryableClass(log[c][i].error)
                                   /\ log[c][i].error.hasConfig
        /\ RejectedWithErrorOf(c, MaxRetries + 1)

\* C2 as stated: with retry enabled and budget left (n < N), a failed attempt
\* is re-issued if and only if its failure is of a retryable class; a 400 on
\* the first attempt with retry: 3 gives one attempt and the 400 is propagated.
C2_RetriedIffRetryableClass ==
    \A c \in CallIds :
        RetryEnabled =>
            \A i \in 1..Len(log[c]) :
                (FailedAttempt(c, i) /\ i - 1 < MaxRetries) =>
                    (Retried(c, i) <=> RetryableClass(log[c][i].error))

\* C2 amended: with retry enabled and budget left, a failed attempt is
\* re-issued if and only if its failure is of a retryable class and the error
\* carries its request config; any other failure ends the call after that
\* attempt with that error, so a 400 on the first attempt gives one attempt.
C2_RetriedIffRetryableWithConfig ==
    \A c \in CallIds :
        RetryEnabled =>
            \A i \in 1..Len(log[c]) :
                (FailedAttempt(c, i) /\ i - 1 < MaxRetries) =>
                    /\ Retried(c, i) <=>
                          (RetryableClass(log[c][i].error) /\ log[c][i].error.hasConfig)
                    /\ ~Retried(c, i) =>
                          /\ attempts[c] = i
                          /\ pc[c] = "done"
                          /\ outcome[c].status = "rejected"
                          /\ outcome[c].thrown = ""
                          /\ outcome[c].error.status = log[c][i].error.status
                          /\ outcome[c].error.code = log[c][i].error.code

\* a 400 on the first attempt with retry: 3: one attempt, the 400 propagated
C2_Witness ==
    \E c \in CallIds :
        /\ RetryEnabled
        /\ MaxRetries = 3
        /\ FailedAttempt(c, 1)
        /\ log[c][1].error.status = 400
        /\ log[c][1].error.hasConfig
        /\ attempts[c] = 1
        /\ pc[c] = "done"
        /\ outcome[c].error.status = 400

\* the value the documentation of method op promises for the response data
\* kept in log entry e: its content for a dispatch, its availableAgents for
\* getAgents, the whole body for getHealth
ResolvedWithFieldOf(c, e) ==
    /\ pc[c] = "done"
    /\ outcome[c].status = "resolved"
    /\ outcome[c].thrown = ""
    /\ outcome[c].error = NoError
    /\ IF call[c].op \in {"call", "callAgent"}
         THEN /\ outcome[c].text = e.data.body.content
              /\ outcome[c].list = <<>>
              /\ outcome[c].body = NoBody
       ELSE IF call[c].op = "getAgents"
         THEN /\ outcome[c].list = e.data.body.availableAgents
              /\ outcome[c].text = ""
              /\ outcome[c].body = NoBody
       ELSE /\ outcome[c].body = e.data.body
            /\ outcome[c].text = ""
            /\ outcome[c].list = <<>>

\* the first k attempts of call c failed with retryable failures and attempt
\* k+1 succeeded
FailedThenSucceeded(c, k) ==
    /\ Len(log[c]) = k + 1
    /\ \A i \in 1..k : FailedAttempt(c, i) /\ RetryableClass(log[c][i].error)
    /\ log[c][k + 1].ok

\* C3: with retry: N >= 1 and 0 <= k <= N, if the first k attempts fail with
\* retryable failures and attempt k+1 succeeds, the client makes exactly k+1
\* attempts and the call resolves with the documented field of the response
\* of attempt k+1.
C3_SucceedsAfterKRetries ==
    \A c \in CallIds :
        RetryEnabled =>
            \A k \in 0..MaxRetries :
                FailedThenSucceeded(c, k) =>
                    /\ attempts[c] = k + 1
                    /\ Len(sent[c]) = k + 1
                    /\ ResolvedWithFieldOf(c, log[c][k + 1])

\* 503, 503, 200 with retry: 3: three attempts and the content of the third
C3_Witness ==
    \E c \in CallIds :
        /\ RetryEnabled
        /\ MaxRetries = 3
        /\ call[c].op = "call"
        /\ FailedThenSucceeded(c, 2)
        /\ log[c][1].error.status = 503
        /\ log[c][2].error.status = 503
        /\ attempts[c] = 3
        /\ outcome[c].text = "Response from agent"

\* C4: the retry interceptor is installed if and only if retry > 0; when the
\* option is absent, 0 or negative, every call makes exactly one attempt
\* whatever the failure, and the failure is surfaced after that attempt.
C4_InterceptorIffRetryPositive ==
    client.state = "ready" =>
        /\ client.interceptor <=> RetryEnabled
        /\ ~RetryEnabled =>
              \A c \in CallIds :
                  /\ attempts[c] <= 1
                  /\ FailedAttempt(c, 1) => /\ attempts[c] = 1
                                            /\ RejectedWithErrorOf(c, 1)

\* retry: 0 and a 503 on the only attempt
C4_Witness ==
    \E c \in CallIds :
        /\ client.state = "ready"
        /\ client.options.retry.def
        /\ client.options.retry.n = 0
        /\ FailedAttempt(c, 1)
        /\ log[c][1].error.status = 503
        /\ log[c][1].error.hasConfig
        /\ RejectedWithErrorOf(c, 1)

\* a message lacks sender, content, sender.id or type
Malformed(m) ==
    \/ ~m.sender.def
    \/ m.content = Undefined
    \/ m.sender.id = Undefined
    \/ m.type = Undefined

\* the input of a dispatch fails normalisation: an empty sequence, or a
\* malformed message in it
InvalidInput(input) ==
    \/ input.array /\ Len(input.items) = 0
    \/ \E i \in 1..Len(input.items) : Malformed(input.items[i])

\* call c is a call or a callAgent
IsDispatch(c) == pc[c] # "idle" /\ call[c].op \in {"call", "callAgent"}

\* call c is a dispatch whose messages get normalised: a call, or a callAgent
\* with an agent name
Normalises(c) ==
    /\ pc[c] # "idle"
    /\ \/ call[c].op = "call"
       \/ /\ call[c].op = "callAgent"
          /\ call[c].agentName.def
          /\ call[c].agentName.chars # <<>>

\* call c has rejected with an error of the client and has not reached the
\* transport
RejectedBeforeNetwork(c) ==
    /\ pc[c] = "done"
    /\ outcome[c].status = "rejected"
    /\ outcome[c].thrown # ""
    /\ attempts[c] = 0
    /\ sent[c] = <<>>
    /\ log[c] = <<>>
    /\ delays[c] = <<>>

FirstViolation(m) ==
    IF ~m.sender.def \/ m.content = Undefined THEN 1
    ELSE IF m.sender.id = Undefined THEN 2
    ELSE IF m.type = Undefined THEN 3
    ELSE 0

\* the check an error message of the normalisation reports
CheckReported(text) ==
    CASE text \in {"Message must have both sender and content properties",
                   "Each message must have both sender and content properties"} -> 1
      [] text \in {"Message sender must have an id property",
                   "Each message sender must have an id property"} -> 2
      [] text \in {"Message must have a type property",
                   "Each message must have a type property"} -> 3
      [] OTHER -> 0

\* the position of the first malformed message of a sequence that has one
FirstMalformed(items) ==
    CHOOSE i \in 1..Len(items) :
        Malformed(items[i]) /\ \A j \in 1..(i - 1) : ~Malformed(items[j])

C7_TransportErrorSurfacedAsIs ==
    \A c \in CallIds :
        (pc[c] = "done" /\ Len(log[c]) > 0) =>
            LET last == log[c][Len(log[c])]
            IN  IF last.ok
                  THEN ResolvedWithFieldOf(c, last)
                  ELSE /\ outcome[c].status = "rejected"
                       /\ outcome[c].thrown = ""
                       /\ outcome[c].error.code = last.error.code
                       /\ outcome[c].error.hasResponse = last.error.hasResponse
                       /\ outcome[c].error.status = last.error.status
                       /\ outcome[c].error.body = last.error.body
                       /\ outcome[c].error.message = last.error.message
                       /\ outcome[c].error.attempt = last.error.attempt
                       /\ outcome[c].text = ""
                       /\ outcome[c].list = <<>>
                       /\ outcome[c].body = NoBody

\* a 503 was retried and the 400 of the second attempt reached the caller
C7_Witness ==
    \E c \in CallIds :
        /\ pc[c] = "done"
        /\ Len(log[c]) = 2
        /\ log[c][1].error.status = 503
        /\ log[c][2].error.status = 400
        /\ outcome[c].status = "rejected"
        /\ outcome[c].error.status = 400
        /\ outcome[c].error.body = "error body"

\* C8: callAgent with an empty or absent agentName rejects with "agentName is
\* required" and issues no HTTP attempt.
C8_AgentNameRequired ==
    \A c \in CallIds :
        (/\ pc[c] # "idle"
         /\ call[c].op = "callAgent"
         /\ (~call[c].agentName.def \/ call[c].agentName.chars = <<>>)) =>
            /\ RejectedBeforeNetwork(c)
            /\ outcome[c].thrown = "agentName is required"

\* callAgent("", m) for a well-formed message m
C8_Witness ==
    \E c \in CallIds :
        /\ call[c].op = "callAgent"
        /\ call[c].agentName = [def |-> TRUE, chars |-> <<>>]
        /\ ~InvalidInput(call[c].input)
        /\ pc[c] = "done"
        /\ outcome[c].thrown = "agentName is required"

\* C9: normalising a sequence of zero messages fails with "messages array
\* cannot be empty"; the body of a dispatch handed to the transport is never
\* empty.
C9_EmptySequenceRejected ==
    \A c \in CallIds :
        /\ (Normalises(c) /\ call[c].input.array /\ call[c].input.items = <<>>) =>
              /\ RejectedBeforeNetwork(c)
              /\ outcome[c].thrown = "messages array cannot be empty"
        /\ \A i \in 1..Len(sent[c]) :
              sent[c][i].method = "post" =>
                  sent[c][i].hasData /\ Len(sent[c][i].data) >= 1

\* call([]) has rejected
C9_Witness ==
    \E c \in CallIds :
        /\ call[c].op = "call"
        /\ call[c].input = [array |-> TRUE, items |-> <<>>]
        /\ pc[c] = "done"
        /\ outcome[c].thrown = "messages array cannot be empty"

\* call c was given a single message object
SingleMessage(c) == Normalises(c) /\ ~call[c].input.array

\* what the normalisation makes of the one-element array of the message that
\* call c was given
AsArray(c) == prepareCallRequest([array |-> TRUE, items |-> call[c].input.items])

\* C10 as stated: normalize(m) is equivalent to normalize([m]) for every
\* message m: the same request envelope when m is valid, the same validation
\* failure when m is invalid.
C10_SingleEquivalentToArray ==
    \A c \in CallIds :
        SingleMessage(c) =>
            IF AsArray(c).ok
              THEN /\ attempts[c] >= 1
                   /\ sent[c][1].data = AsArray(c).messages
              ELSE /\ RejectedBeforeNetwork(c)
                   /\ outcome[c].thrown = AsArray(c).error

\* C10 amended: normalize(m) and normalize([m]) produce the same request
\* envelope when m is valid; when m is invalid both fail at the same check
\* (sender and content, sender.id, type), the single message with an error
\* text that starts "Message", the array with one that starts "Each message".
C10_SingleAndArrayFailAtSameCheck ==
    \A c \in CallIds :
        SingleMessage(c) =>
            IF AsArray(c).ok
              THEN /\ attempts[c] >= 1
                   /\ sent[c][1].data = AsArray(c).messages
              ELSE /\ RejectedBeforeNetwork(c)
                   /\ CheckReported(outcome[c].thrown) # 0
                   /\ CheckReported(outcome[c].thrown) = CheckReported(AsArray(c).error)
                   /\ outcome[c].thrown \in
                         {"Message must have both sender and content properties",
                          "Message sender must have an id property",
                          "Message must have a type property"}
                   /\ AsArray(c).error \in
                         {"Each message must have both sender and content properties",
                          "Each message sender must have an id property",
                          "Each message must have a type property"}

\* a single message that lacks sender.id and type
C10_Witness ==
    \E c \in CallIds :
        /\ SingleMessage(c)
        /\ call[c].input.items[1].sender = [def |-> TRUE, id |-> Undefined]
        /\ call[c].input.items[1].content # Undefined
        /\ call[c].input.items[1].type = Undefined
        /\ outcome[c].thrown = "Message sender must have an id property"
        /\ AsArray(c).error = "Each message sender must have an id property"

\* C11: for every non-empty sequence of valid messages the body sent is
\* { messages } with the input sequence element for element: same length,
\* same order, nothing added, dropped, reordered or altered.
C11_ValidSequenceSentVerbatim ==
    \A c \in CallIds :
        (/\ Normalises(c)
         /\ call[c].input.array
         /\ Len(call[c].input.items) > 0
         /\ ~InvalidInput(call[c].input)) =>
            /\ attempts[c] >= 1
            /\ outcome[c].thrown = ""
            /\ \A i \in 1..Len(sent[c]) :
                  /\ sent[c][i].method = "post"
                  /\ sent[c][i].hasData
                  /\ Len(sent[c][i].data) = Len(call[c].input.items)
                  /\ \A j \in 1..Len(call[c].input.items) :
                        sent[c][i].data[j] = call[c].input.items[j]

\* an array of two different valid messages has been posted
C11_Witness ==
    \E c \in CallIds :
        /\ call[c].op = "call"
        /\ call[c].input.array
        /\ Len(call[c].input.items) = 2
        /\ ~InvalidInput(call[c].input)
        /\ call[c].input.items[1].content = "Hi there!"
        /\ call[c].input.items[2].content = "Hello"
        /\ Len(sent[c]) >= 1
        /\ sent[c][1].data = call[c].input.items

\* C12: constructing a client with a missing or empty baseUrl fails with
\* "baseUrl is required" and no client exists afterwards: no connection
\* profile, no retry interceptor, and no call can be made.
C12_BaseUrlRequired ==
    (client.state # "none" /\ client.options.baseUrl \in {Undefined, ""}) =>
        /\ client.state = "failed"
        /\ client.error = "baseUrl is required"
        /\ client.baseURL = Undefined
        /\ ~client.interceptor
        /\ \A c \in CallIds : pc[c] = "idle" /\ attempts[c] = 0

\* new CubicClient({ baseUrl: "", retry: 3 }) has thrown
C12_Witness ==
    /\ client.state = "failed"
    /\ client.options.baseUrl = ""
    /\ client.options.retry = [def |-> TRUE, n |-> 3]
    /\ client.error = "baseUrl is required"

\* C13: the per-attempt timeout of the connection profile equals the supplied
\* timeout for every supplied value, and 90000 when the option is omitted.
C13_TimeoutAsSupplied ==
    client.state = "ready" =>
        client.timeout = IF client.options.timeout.def
                           THEN client.options.timeout.n
                           ELSE 90000

PercentEncoded(ch) ==
    IF ch \in {"a", "b", "m", "y", "-"} THEN ch
    ELSE CASE ch = " " -> "%20"
           [] ch = "/" -> "%2F"
           [] ch = "?" -> "%3F"
           [] ch = "%" -> "%25"

Succeeded(c) == pc[c] = "done" /\ Len(log[c]) > 0 /\ log[c][Len(log[c])].ok

\* the body of the response that answered call c
ResponseBody(c) == log[c][Len(log[c])].data.body

\* C16: getAgents issues GET /agents and returns exactly the sequence found in
\* availableAgents of the response body, in the same order and with its
\* duplicates.
C16_AgentsListedVerbatim ==
    \A c \in CallIds :
        call[c].op = "getAgents" =>
            /\ \A i \in 1..Len(sent[c]) :
                  /\ sent[c][i].method = "get"
                  /\ sent[c][i].url = <<"/agents">>
                  /\ ~sent[c][i].hasData
            /\ Succeeded(c) =>
                  /\ outcome[c].status = "resolved"
                  /\ outcome[c].list = ResponseBody(c).availableAgents
                  /\ Len(outcome[c].list) = Len(ResponseBody(c).availableAgents)
                  /\ outcome[c].text = ""
                  /\ outcome[c].body = NoBody
                  /\ outcome[c].error = NoError

\* getAgents has resolved with a list that names one agent twice
C16_Witness ==
    \E c \in CallIds :
        /\ call[c].op = "getAgents"
        /\ Succeeded(c)
        /\ sent[c] = <<[method |-> "get", url |-> <<"/agents">>, data |-> <<>>,
                        hasData |-> FALSE]>>
        /\ ResponseBody(c).availableAgents = <<"gpt_4o", "gpt_4o">>
        /\ outcome[c].list = <<"gpt_4o", "gpt_4o">>

\* C17: getHealth issues GET /health and returns the whole response body
\* unmodified: no field is extracted, and a per-service entry (prompt, agents,
\* providers, spec) that is absent in the response is absent in the result.
C17_HealthReturnedWhole ==
    \A c \in CallIds :
        call[c].op = "getHealth" =>
            /\ \A i \in 1..Len(sent[c]) :
                  /\ sent[c][i].method = "get"
                  /\ sent[c][i].url = <<"/health">>
                  /\ ~sent[c][i].hasData
            /\ Succeeded(c) =>
                  /\ outcome[c].status = "resolved"
                  /\ outcome[c].body = ResponseBody(c)
                  /\ DOMAIN outcome[c].body = {"status", "timestamp", "services"}
                  /\ \A n \in {"prompt", "agents", "providers", "spec"} :
                        n \in DOMAIN outcome[c].body.services
                            <=> n \in DOMAIN ResponseBody(c).services
                  /\ outcome[c].text = ""
                  /\ outcome[c].list = <<>>
                  /\ outcome[c].error = NoError

\* getHealth has resolved with a body that reports two of the four services
C17_Witness ==
    \E c \in CallIds :
        /\ call[c].op = "getHealth"
        /\ Succeeded(c)
        /\ sent[c][1].method = "get"
        /\ sent[c][1].url = <<"/health">>
        /\ DOMAIN ResponseBody(c).services = {"agents", "providers"}
        /\ outcome[c].body.status = "healthy"
        /\ outcome[c].body.services["agents"] = "healthy"
        /\ "prompt" \notin DOMAIN outcome[c].body.services

\* the number of attempts of call c that were followed by a retry
RetriesOf(c) == IF pc[c] = "backoff" THEN attempts[c] ELSE attempts[c] - 1

\* C18: the delay between the failure of attempt n (counted from 0) and the
\* issue of attempt n+1 is 1000 * (n+1) milliseconds: 1000 before the first
\* retry, 2000 before the second, each retry of a call waiting 1000 more than
\* the one before.
C18_LinearBackoff ==
    \A c \in CallIds :
        attempts[c] > 0 =>
            /\ Len(delays[c]) = RetriesOf(c)
            /\ \A n \in 0..(Len(delays[c]) - 1) :
                  /\ delays[c][n + 1] = 1000 * (n + 1)
                  /\ n > 0 => delays[c][n + 1] = delays[c][n] + 1000

\* a call has waited before its first, second and third retry
C18_Witness ==
    \E c \in CallIds :
        /\ attempts[c] = 4
        /\ delays[c] = <<1000, 2000, 3000>>
        /\ \A i \in 1..3 : FailedAttempt(c, i) /\ Retried(c, i)

\* what the attempts, the counter and the delays of call c must be, given
\* nothing but the failures of call c itself
OwnCourse(c) ==
    /\ attempts[c] <= MaxRetries + 1
    /\ \A i \in 1..Len(log[c]) :
          FailedAttempt(c, i) =>
              /\ log[c][i].error.retryCount = IF i = 1 THEN NoCount ELSE Count(i - 1)
              /\ Retried(c, i) <=> (/\ log[c][i].error.hasConfig
                                     /\ RetryableClass(log[c][i].error)
                                     /\ i <= MaxRetries)
    /\ Len(delays[c]) = RetriesOf(c)
    /\ \A i \in 1..Len(delays[c]) : delays[c][i] = 1000 * i

\* C19: the retry counter is per call: each call starts at n = 0, and with
\* several calls in flight on one client, under every interleaving of their
\* failures and backoff waits, the attempts and the delays of a call depend
\* on the failures of that call alone.
C19_CallsIndependent ==
    RetryEnabled => \A c \in CallIds : attempts[c] > 0 => OwnCourse(c)

\* two calls are waiting to be re-issued at once, one before its third retry
\* and one before its first
C19_Witness ==
    /\ RetryEnabled
    /\ pc["c1"] = "backoff"
    /\ pc["c2"] = "backoff"
    /\ delays["c1"] = <<1000, 2000, 3000>>
    /\ delays["c2"] = <<1000>>
    /\ config["c1"].retryCount = Count(3)
    /\ config["c2"].retryCount = Count(1)

\* C20: every re-issued attempt of a call carries the method, the path and
\* the body of the first attempt of that call; only the retry counter changes
\* between attempts.
C20_ReissuedRequestIdentical ==
    \A c \in CallIds :
        /\ Len(sent[c]) = attempts[c]
        /\ \A i \in 1..Len(sent[c]) :
              /\ sent[c][i].method = sent[c][1].method
              /\ sent[c][i].url = sent[c][1].url
              /\ sent[c][i].hasData = sent[c][1].hasData
              /\ sent[c][i].data = sent[c][1].data
        /\ attempts[c] > 0 =>
              /\ config[c].method = sent[c][1].method
              /\ config[c].url = sent[c][1].url
              /\ config[c].data = sent[c][1].data

\* a dispatch of two messages has been issued three times
C20_Witness ==
    \E c \in CallIds :
        /\ call[c].op = "callAgent"
        /\ Len(sent[c]) = 3
        /\ sent[c][1].method = "post"
        /\ Len(sent[c][1].data) = 2
        /\ sent[c][3] = sent[c][1]
        /\ config[c].retryCount = Count(2)

\* call c has been issued and has not completed: an attempt is in flight or
\* a backoff timer is running
Suspended(c) == pc[c] \in {"inflight", "backoff"}

\* call c has completed: resolved with its result or rejected with an error
Completed(c) ==
    /\ pc[c] = "done"
    /\ \/ outcome[c].status = "resolved"
       \/ (outcome[c].status = "rejected" /\ outcome[c].error # NoError)

\* C21: if every attempt eventually succeeds or fails and every backoff timer
\* eventually fires, every call that was issued eventually completes, resolved
\* with its result or rejected with an error: no call retries forever or
\* stays suspended.
C21_EveryCallCompletes ==
    \A c \in CallIds : Suspended(c) ~> Completed(c)

\* a call has completed after it was retried as often as the client allows
C21_Witness ==
    \E c \in CallIds :
        /\ Completed(c)
        /\ RetryEnabled
        /\ MaxRetries = 3
        /\ attempts[c] = 4
        /\ Len(delays[c]) = 3

\* call c has failed for good after at least one retry
FailedAfterRetry(c) ==
    /\ pc[c] = "done"
    /\ attempts[c] >= 2
    /\ ~log[c][Len(log[c])].ok

\* C22: when a call fails terminally after one or more retries (the budget is
\* exhausted, or a later attempt fails non-retryably), the caller receives the
\* error of the last attempt made, not that of the first; the errors of the
\* retried attempts are dropped.
C22_LastErrorSurfaced ==
    \A c \in CallIds :
        FailedAfterRetry(c) =>
            LET last == log[c][attempts[c]].error
            IN  /\ Len(log[c]) = attempts[c]
                /\ outcome[c].status = "rejected"
                /\ outcome[c].thrown = ""
                /\ outcome[c].error.attempt = attempts[c]
                /\ outcome[c].error.attempt # log[c][1].error.attempt
                /\ outcome[c].error.code = last.code
                /\ outcome[c].error.hasResponse = last.hasResponse
                /\ outcome[c].error.status = last.status
                /\ outcome[c].error.message = last.message

\* a timeout and a refused connection were retried, and the 503 of the third
\* attempt, which used up the budget, reached the caller
C22_Witness ==
    \E c \in CallIds :
        /\ FailedAfterRetry(c)
        /\ MaxRetries = 2
        /\ attempts[c] = 3
        /\ log[c][1].error.code = "ECONNABORTED"
        /\ log[c][2].error.code = "ECONNREFUSED"
        /\ log[c][3].error.status = 503
        /\ outcome[c].error.status = 503
        /\ outcome[c].error.code = "ERR_BAD_RESPONSE"

\* the number of times the remote service was sent the body of the first
\* attempt of call c
TimesBodySent(c) ==
    Cardinality({ i \in 1..Len(sent[c]) :
                     sent[c][i].hasData /\ sent[c][i].data = sent[c][1].data })

\* C23: the retry policy does not distinguish operations: a POST dispatch
\* (call / callAgent) is re-sent on a retryable failure exactly like a GET, a
\* timeout of the attempt included, so with retry: N the remote service is
\* sent the same dispatch body once per attempt, up to N+1 times for one
\* invocation.
C23_DispatchResentOnRetry ==
    \A c \in CallIds :
        (RetryEnabled /\ attempts[c] > 0) =>
            /\ \A i \in 1..Len(log[c]) :
                  (/\ FailedAttempt(c, i)
                   /\ log[c][i].error.hasConfig
                   /\ RetryableClass(log[c][i].error)
                   /\ i <= MaxRetries) => Retried(c, i)
            /\ IsDispatch(c) =>
                  /\ sent[c][1].method = "post"
                  /\ TimesBodySent(c) = attempts[c]
                  /\ TimesBodySent(c) <= MaxRetries + 1

\* a dispatch of two messages was sent four times with retry: 3, the first
\* time before a timeout of the attempt
C23_Witness ==
    \E c \in CallIds :
        /\ call[c].op = "call"
        /\ MaxRetries = 3
        /\ sent[c][1].method = "post"
        /\ Len(sent[c][1].data) = 2
        /\ TimesBodySent(c) = 4
        /\ log[c][1].error.code = "ECONNABORTED"
        /\ Retried(c, 1)

\* the retry counter of call c, an unset counter read as 0
CounterOf(c) == IF config[c].retryCount.set THEN config[c].retryCount.n ELSE 0

\* the counter of call c is within the budget and accounts for every attempt
\* but the first
CounterInRange(c) ==
    /\ CounterOf(c) >= 0
    /\ CounterOf(c) <= MaxRetries
    /\ attempts[c] <= CounterOf(c) + 1

\* a step leaves the counter of call c alone, or adds one to it as it
\* handles a failed attempt of c
CounterStep(c) ==
    \/ CounterOf(c)' = CounterOf(c)
    \/ /\ CounterOf(c)' = CounterOf(c) + 1
       /\ Len(log'[c]) = Len(log[c]) + 1
       /\ ~log'[c][Len(log'[c])].ok

\* C24: for an integer retry: N >= 1, in every reachable state of a call the
\* retry counter (config.__retryCount) is between 0 and N, it never decreases
\* and changes only by +1 per failed attempt handled, and the number of
\* attempts issued so far is at most the counter plus 1.
C24_CounterBoundedMonotone ==
    /\ [](RetryEnabled => \A c \in CallIds : CounterInRange(c))
    /\ [][RetryEnabled => \A c \in CallIds : CounterStep(c)]_vars

\* the counter of a call has reached the budget of three retries, the fourth
\* attempt is in flight
C24_Witness ==
    \E c \in CallIds :
        /\ RetryEnabled
        /\ MaxRetries = 3
        /\ config[c].retryCount = Count(3)
        /\ attempts[c] = 4
        /\ pc[c] = "inflight"

\* the errors of the normalisation of the messages
ValidationErrors ==
    { "messages array cannot be empty",
      "Message must have both sender and content properties",
      "Message sender must have an id property",
      "Message must have a type property",
      "Each message must have both sender and content properties",
      "Each message sender must have an id property",
      "Each message must have a type property" }

\* C25: callAgent checks agentName before it normalises the messages: when
\* the agent name is empty or absent and the message input is invalid as
\* well, the call rejects with "agentName is required" and not with a
\* validation error.
C25_AgentNameCheckedFirst ==
    \A c \in CallIds :
        (/\ pc[c] # "idle"
         /\ call[c].op = "callAgent"
         /\ (~call[c].agentName.def \/ call[c].agentName.chars = <<>>)
         /\ InvalidInput(call[c].input)) =>
            /\ pc[c] = "done"
            /\ outcome[c].status = "rejected"
            /\ outcome[c].thrown = "agentName is required"
            /\ outcome[c].thrown \notin ValidationErrors
            /\ sent[c] = <<>>

\* callAgent("", []) has rejected with "agentName is required"
C25_Witness ==
    \E c \in CallIds :
        /\ pc[c] = "done"
        /\ call[c].op = "callAgent"
        /\ call[c].agentName = [def |-> TRUE, chars |-> <<>>]
        /\ call[c].input = [array |-> TRUE, items |-> <<>>]
        /\ outcome[c].status = "rejected"
        /\ outcome[c].thrown = "agentName is required"

\* C26: with retry enabled, a failure that carries no request config is
\* rejected immediately and never retried, whatever its error code or status
\* and however much of the retry budget remains.
C26_ConfiglessFailureNeverRetried ==
    \A c \in CallIds :
        RetryEnabled =>
            \A i \in 1..Len(log[c]) :
                (FailedAttempt(c, i) /\ ~log[c][i].error.hasConfig) =>
                    /\ ~Retried(c, i)
                    /\ i = Len(log[c])
                    /\ attempts[c] = i
                    /\ Len(delays[c]) = i - 1
                    /\ CounterOf(c) = i - 1
                    /\ RejectedWithErrorOf(c, i)

\* with retry: 3, the first attempt failed with a 503 that carried no config
\* and the call rejected after that one attempt
C26_Witness ==
    \E c \in CallIds :
        /\ RetryEnabled
        /\ MaxRetries = 3
        /\ Len(log[c]) = 1
        /\ FailedAttempt(c, 1)
        /\ ~log[c][1].error.hasConfig
        /\ log[c][1].error.status = 503
        /\ attempts[c] = 1
        /\ pc[c] = "done"
        /\ outcome[c].error.status = 503

====
